---- MODULE Spec2Model ----
(***************************************************************************)
(* Model of pkg/services/accesscontrol/filter.go: the permission-scoped    *)
(* SQL filter construction (Filter, ParseScopes, SetAcceptListForTest) and *)
(* the role-membership join builder (UserRolesFilter and its conditions).  *)
(*                                                                         *)
(* Go strings are TLA+ strings; a Go slice is a sequence; a Go map used as *)
(* a set is a set.  Every exported function is an action that draws its    *)
(* arguments from args, which the initial state draws from bounded sets,   *)
(* and records what it returned in call.                                   *)
(***************************************************************************)
EXTENDS Integers, Sequences, FiniteSets, TLC

VARIABLES
    sqlIDAcceptList,   \* the package variable sqlIDAcceptList
    restores,          \* the closures returned by SetAcceptListForTest so far
    args,              \* the arguments of the calls of this run
    call               \* the last call and what it returned

vars == <<sqlIDAcceptList, restores, args, call>>

\* ------------------------------------------------------------------ bounds

\* Longest scope list handed to ParseScopes.
MaxScopes == 3

\* Longest action list handed to Filter.
MaxActions == 2

\* Most calls of SetAcceptListForTest in one run.
MaxOverrides == 2

\* Longest team list and longest role list handed to the role filters.
MaxTeams == 2
MaxRoles == 2

\* ----------------------------------------------------------------- strings

\* The i-th character (1-based) of s, as a string of length 1.
CharAt(s, i) == SubSeq(s, i, i)

\* strings.HasPrefix
HasPrefix(s, p) == Len(s) >= Len(p) /\ SubSeq(s, 1, Len(p)) = p

\* strings.HasSuffix
HasSuffix(s, p) == Len(s) >= Len(p) /\ SubSeq(s, Len(s) - Len(p) + 1, Len(s)) = p

\* strings.LastIndex(s, c) for a one-character c: the 0-based index of the
\* last c in s, or -1.
LastIndex(s, c) ==
    LET at == {i \in 1..Len(s) : CharAt(s, i) = c}
    IN  IF at = {} THEN -1
        ELSE (CHOOSE i \in at : \A j \in at : j <= i) - 1

\* Go's s[from:], from 0-based.
SliceFrom(s, from) == SubSeq(s, from + 1, Len(s))

\* --------------------------------------------------------- strconv.ParseInt

Digits == {"0", "1", "2", "3", "4", "5", "6", "7", "8", "9"}

DigitVal(c) ==
    CASE c = "0" -> 0 [] c = "1" -> 1 [] c = "2" -> 2 [] c = "3" -> 3
      [] c = "4" -> 4 [] c = "5" -> 5 [] c = "6" -> 6 [] c = "7" -> 7
      [] c = "8" -> 8 [] c = "9" -> 9

AllDigits(s) == \A i \in 1..Len(s) : CharAt(s, i) \in Digits

RECURSIVE StripZeros(_)
StripZeros(s) ==
    IF Len(s) > 1 /\ CharAt(s, 1) = "0" THEN StripZeros(SubSeq(s, 2, Len(s))) ELSE s

\* a <= b for two digit strings of the same length.
RECURSIVE DigitsLE(_, _)
DigitsLE(a, b) ==
    IF a = "" THEN TRUE
    ELSE IF DigitVal(CharAt(a, 1)) < DigitVal(CharAt(b, 1)) THEN TRUE
    ELSE IF DigitVal(CharAt(a, 1)) > DigitVal(CharAt(b, 1)) THEN FALSE
    ELSE DigitsLE(SubSeq(a, 2, Len(a)), SubSeq(b, 2, Len(b)))

\* 2^63 - 1 and 2^63 in decimal: the largest magnitudes of an int64.
MaxInt64Digits == "9223372036854775807"
MinInt64Digits == "9223372036854775808"

\* The magnitude written by the digit string d fits below the limit.
FitsInt64(d, neg) ==
    LET m   == StripZeros(d)
        lim == IF neg THEN MinInt64Digits ELSE MaxInt64Digits
    IN  \/ Len(m) < Len(lim)
        \/ Len(m) = Len(lim) /\ DigitsLE(m, lim)

RECURSIVE DecVal(_)
DecVal(d) ==
    IF d = "" THEN 0
    ELSE DecVal(SubSeq(d, 1, Len(d) - 1)) * 10 + DigitVal(CharAt(d, Len(d)))

\* strconv.ParseInt(s, 10, 64): an optional sign, then one or more decimal
\* digits, in the range of an int64; anything else is an error.
ParseInt(s) ==
    LET signed == s # "" /\ CharAt(s, 1) \in {"+", "-"}
        neg    == s # "" /\ CharAt(s, 1) = "-"
        d      == IF signed THEN SubSeq(s, 2, Len(s)) ELSE s
    IN  IF d = "" \/ ~AllDigits(d) \/ ~FitsInt64(d, neg)
        THEN [err |-> TRUE, val |-> 0]
        ELSE [err |-> FALSE, val |-> IF neg THEN -DecVal(d) ELSE DecVal(d)]

\* ------------------------------------------------------------ interface{}

\* A Go interface{} value holding an int64, and one holding a string.
Int64Value(v) == [kind |-> "int64", int |-> v, str |-> ""]
StringValue(t) == [kind |-> "string", int |-> 0, str |-> t]

\* ------------------------------------------------------------ wildcards

\* WildcardsFromPrefix: the wildcard forms of a prefix made of colon-separated
\* segments, one per level: "kind:*" and "kind:attribute:*" for the prefix
\* "kind:attribute:".  i is the position read, built the segments closed so
\* far (each followed by its colon), part the segment being read.
RECURSIVE WildcardsWalk(_, _, _, _)
WildcardsWalk(prefix, i, built, part) ==
    IF i > Len(prefix)
    THEN IF part = "" THEN {} ELSE {built \o part \o ":*"}
    ELSE IF CharAt(prefix, i) = ":"
    THEN IF part = ""
         THEN WildcardsWalk(prefix, i + 1, built, "")
         ELSE {built \o part \o ":*"}
                  \cup WildcardsWalk(prefix, i + 1, built \o part \o ":", "")
    ELSE WildcardsWalk(prefix, i + 1, built, part \o CharAt(prefix, i))

WildcardsFromPrefix(prefix) == WildcardsWalk(prefix, 1, "", "")

\* ------------------------------------------------------------ ParseScopes

\* parseIntAttribute: the text after the scope's last colon, as an int64.
parseIntAttribute(scope) ==
    LET r == ParseInt(SliceFrom(scope, LastIndex(scope, ":") + 1))
    IN  [err |-> r.err, val |-> Int64Value(r.val)]

\* parseStringAttribute: the text after the scope's last colon; never fails.
parseStringAttribute(scope) ==
    [err |-> FALSE, val |-> StringValue(SliceFrom(scope, LastIndex(scope, ":") + 1))]

\* IntMode with the suffix test written without its leading colon.
IntModeLooseSuffix(prefix) == HasSuffix(prefix, "id:")

\* The parser ParseScopes selects for a prefix.
IntMode(prefix) == HasSuffix(prefix, ":id:")

parser(prefix, scope) ==
    IF IntMode(prefix) THEN parseIntAttribute(scope) ELSE parseStringAttribute(scope)

\* Whether the loop of ParseScopes returns (nil, true) at this scope.
IsWildcard(prefix, scope) == scope \in WildcardsFromPrefix(prefix)

\* AddScope without the test that the scope starts with the prefix.
AddScopeAnyPrefix(prefix, scope, ids) ==
    LET r == parser(prefix, scope)
    IN  IF r.err THEN ids ELSE ids \cup {r.val}

\* What one scope adds to ids when it is not a wildcard.
AddScope(prefix, scope, ids) ==
    IF HasPrefix(scope, prefix)
    THEN LET r == parser(prefix, scope)
         IN  IF r.err THEN ids ELSE ids \cup {r.val}
    ELSE ids

\* The loop of ParseScopes with the wildcard test made only for a scope that
\* does not start with the prefix.
RECURSIVE ParseScopesFromPrefixFirst(_, _, _, _)
ParseScopesFromPrefixFirst(prefix, scopes, i, ids) ==
    IF i > Len(scopes)
    THEN [ids |-> ids, idsNil |-> FALSE, hasWildcard |-> FALSE]
    ELSE IF HasPrefix(scopes[i], prefix)
    THEN ParseScopesFromPrefixFirst(prefix, scopes, i + 1,
                                    AddScope(prefix, scopes[i], ids))
    ELSE IF IsWildcard(prefix, scopes[i])
    THEN [ids |-> {}, idsNil |-> TRUE, hasWildcard |-> TRUE]
    ELSE ParseScopesFromPrefixFirst(prefix, scopes, i + 1, ids)

\* The loop of ParseScopes from the i-th scope on, ids being the set so far.
RECURSIVE ParseScopesFrom(_, _, _, _)
ParseScopesFrom(prefix, scopes, i, ids) ==
    IF i > Len(scopes)
    THEN [ids |-> ids, idsNil |-> FALSE, hasWildcard |-> FALSE]
    ELSE IF IsWildcard(prefix, scopes[i])
    THEN [ids |-> {}, idsNil |-> TRUE, hasWildcard |-> TRUE]
    ELSE ParseScopesFrom(prefix, scopes, i + 1, AddScope(prefix, scopes[i], ids))

\* ParseScopes(prefix, scopes): ids is the returned map's key set, idsNil
\* says that the returned map is nil.
ParseScopes(prefix, scopes) == ParseScopesFrom(prefix, scopes, 1, {})

\* ----------------------------------------------------------------- Filter

\* The accept list the package starts with.  The MySQL and SQLite spelling of
\* the user id column is quoted with backquotes, written ' here.
StartupAcceptList ==
    { "id", "org_user.user_id", "role.uid", "t.id", "team.id", "u.id",
      "\"user\".\"id\"", "'user'.'id'", "dashboard.uid" }

\* A nil error.
NoError == "<nil>"

denyQuery == [Where |-> " 1 = 0", Args |-> <<>>]
allowAllQuery == [Where |-> " 1 = 1", Args |-> <<>>]

\* A Go map that may be nil: isNil, and m, a function on the keys it holds.
NilMap == [isNil |-> TRUE, m |-> <<>>]
MapOf(f) == [isNil |-> FALSE, m |-> f]

\* A *user.SignedInUser: nil, or its OrgID and its Permissions, a map from an
\* organization to a map from an action to the scopes granted.
NilUser == [isNil |-> TRUE, OrgID |-> 0, Permissions |-> NilMap]
UserOf(orgID, permissions) ==
    [isNil |-> FALSE, OrgID |-> orgID, Permissions |-> permissions]

\* OrgPermissions falling back on another organization's entry when the
\* user's own is missing.
OrgPermissionsAnyOrg(user) ==
    IF user.OrgID \in DOMAIN user.Permissions.m
    THEN user.Permissions.m[user.OrgID]
    ELSE IF DOMAIN user.Permissions.m # {}
    THEN user.Permissions.m[CHOOSE o \in DOMAIN user.Permissions.m : TRUE]
    ELSE NilMap

\* user.Permissions[user.OrgID]: nil when the key is missing.
OrgPermissions(user) ==
    IF user.OrgID \in DOMAIN user.Permissions.m
    THEN user.Permissions.m[user.OrgID]
    ELSE NilMap

\* user.Permissions[user.OrgID][a]: the nil slice when the key is missing.
ActionScopes(user, a) ==
    LET perms == OrgPermissions(user).m
    IN  IF a \in DOMAIN perms THEN perms[a] ELSE <<>>

\* The second guard of Filter without its test of the organization's entry.
MissingPermissionsNoOrgCheck(user) == user.isNil \/ user.Permissions.isNil

\* The second guard of Filter: no user, no permissions, none for its organization.
MissingPermissions(user) ==
    user.isNil \/ user.Permissions.isNil \/ OrgPermissions(user).isNil

\* result[id] += 1 for every id of ids.
Tally(result, ids) ==
    [id \in DOMAIN result \cup ids |->
        (IF id \in DOMAIN result THEN result[id] ELSE 0)
            + (IF id \in ids THEN 1 ELSE 0)]

\* The loop of Filter without the count of the wildcarded actions.
RECURSIVE FilterLoopWildcardNotCounted(_, _, _, _, _, _)
FilterLoopWildcardNotCounted(user, prefix, actions, i, wildcards, result) ==
    IF i > Len(actions)
    THEN [denied |-> FALSE, wildcards |-> wildcards, result |-> result]
    ELSE LET p == ParseScopes(prefix, ActionScopes(user, actions[i]))
         IN  IF p.hasWildcard
             THEN FilterLoopWildcardNotCounted(user, prefix, actions, i + 1,
                                               wildcards, result)
             ELSE IF Cardinality(p.ids) = 0
             THEN [denied |-> TRUE, wildcards |-> wildcards, result |-> result]
             ELSE FilterLoopWildcardNotCounted(user, prefix, actions, i + 1,
                                               wildcards, Tally(result, p.ids))

\* The loop of Filter with an action that grants no identifier counted as a
\* wildcarded one.
RECURSIVE FilterLoopEmptyAsWildcard(_, _, _, _, _, _)
FilterLoopEmptyAsWildcard(user, prefix, actions, i, wildcards, result) ==
    IF i > Len(actions)
    THEN [denied |-> FALSE, wildcards |-> wildcards, result |-> result]
    ELSE LET p == ParseScopes(prefix, ActionScopes(user, actions[i]))
         IN  IF p.hasWildcard \/ Cardinality(p.ids) = 0
             THEN FilterLoopEmptyAsWildcard(user, prefix, actions, i + 1,
                                            wildcards + 1, result)
             ELSE FilterLoopEmptyAsWildcard(user, prefix, actions, i + 1,
                                            wildcards, Tally(result, p.ids))

\* The loop of Filter with the tally emptied at every wildcarded action.
RECURSIVE FilterLoopWildcardClearsTally(_, _, _, _, _, _)
FilterLoopWildcardClearsTally(user, prefix, actions, i, wildcards, result) ==
    IF i > Len(actions)
    THEN [denied |-> FALSE, wildcards |-> wildcards, result |-> result]
    ELSE LET p == ParseScopes(prefix, ActionScopes(user, actions[i]))
         IN  IF p.hasWildcard
             THEN FilterLoopWildcardClearsTally(user, prefix, actions, i + 1,
                                                wildcards + 1, <<>>)
             ELSE IF Cardinality(p.ids) = 0
             THEN [denied |-> TRUE, wildcards |-> wildcards, result |-> result]
             ELSE FilterLoopWildcardClearsTally(user, prefix, actions, i + 1,
                                                wildcards, Tally(result, p.ids))

\* The loop of Filter over actions from the i-th on: denied when an action
\* without wildcard has no identifier, else the wildcard count and the tally.
RECURSIVE FilterLoop(_, _, _, _, _, _)
FilterLoop(user, prefix, actions, i, wildcards, result) ==
    IF i > Len(actions)
    THEN [denied |-> FALSE, wildcards |-> wildcards, result |-> result]
    ELSE LET p == ParseScopes(prefix, ActionScopes(user, actions[i]))
         IN  IF p.hasWildcard
             THEN FilterLoop(user, prefix, actions, i + 1, wildcards + 1, result)
             ELSE IF Cardinality(p.ids) = 0
             THEN [denied |-> TRUE, wildcards |-> wildcards, result |-> result]
             ELSE FilterLoop(user, prefix, actions, i + 1, wildcards,
                             Tally(result, p.ids))

\* EligibleIDs keeping every identifier that some action grants.
EligibleIDsAnyAction(result, wildcards, nActions) ==
    {id \in DOMAIN result : result[id] >= 1}

\* The identifiers Filter keeps: those counted for every action, a wildcarded
\* action counting for all.
EligibleIDs(result, wildcards, nActions) ==
    {id \in DOMAIN result : result[id] + wildcards = nActions}

\* strings.Repeat
RECURSIVE Repeat(_, _)
Repeat(s, n) == IF n <= 0 THEN "" ELSE s \o Repeat(s, n - 1)

\* InQuery with one placeholder too many.
InQueryRepeatAll(sqlID, n) == " " \o sqlID \o " IN " \o "(?" \o Repeat(",?", n) \o ")"

\* The text Filter builds for n identifiers.
InQuery(sqlID, n) == " " \o sqlID \o " IN " \o "(?" \o Repeat(",?", n - 1) \o ")"

\* The orders in which the range over a Go map may visit the keys S.
Orderings(S) ==
    {f \in [1..Cardinality(S) -> S] : \A i, j \in 1..Cardinality(S) : f[i] = f[j] => i = j}

\* FilterBody returning allow-all as soon as one action is wildcarded.
FilterBodyAnyWildcard(user, sqlID, prefix, actions) ==
    LET l == FilterLoop(user, prefix, actions, 1, 0, <<>>)
    IN  IF l.denied
        THEN {[filter |-> denyQuery, err |-> NoError]}
        ELSE IF l.wildcards >= 1
        THEN {[filter |-> allowAllQuery, err |-> NoError]}
        ELSE LET ids == EligibleIDs(l.result, l.wildcards, Len(actions))
             IN  IF Cardinality(ids) = 0
                 THEN {[filter |-> denyQuery, err |-> NoError]}
                 ELSE {[filter |-> [Where |-> InQuery(sqlID, Cardinality(ids)),
                                    Args |-> order],
                        err |-> NoError] : order \in Orderings(ids)}

\* What Filter returns after its two guards, for each order of the range over
\* result.
FilterBody(user, sqlID, prefix, actions) ==
    LET l == FilterLoop(user, prefix, actions, 1, 0, <<>>)
    IN  IF l.denied
        THEN {[filter |-> denyQuery, err |-> NoError]}
        ELSE IF l.wildcards = Len(actions)
        THEN {[filter |-> allowAllQuery, err |-> NoError]}
        ELSE LET ids == EligibleIDs(l.result, l.wildcards, Len(actions))
             IN  IF Cardinality(ids) = 0
                 THEN {[filter |-> denyQuery, err |-> NoError]}
                 ELSE {[filter |-> [Where |-> InQuery(sqlID, Cardinality(ids)),
                                    Args |-> order],
                        err |-> NoError] : order \in Orderings(ids)}

\* Filter with its two guards in the other order.
FilterPermissionsFirst(acceptList, user, sqlID, prefix, actions) ==
    IF MissingPermissions(user)
    THEN {[filter |-> denyQuery, err |-> "missing permissions"]}
    ELSE IF sqlID \notin acceptList
    THEN {[filter |-> denyQuery, err |-> "sqlID is not in the accept list"]}
    ELSE FilterBody(user, sqlID, prefix, actions)

\* Filter returning the other constant with its accept-list error.
FilterErrorWithAllowAll(acceptList, user, sqlID, prefix, actions) ==
    IF sqlID \notin acceptList
    THEN {[filter |-> allowAllQuery, err |-> "sqlID is not in the accept list"]}
    ELSE IF MissingPermissions(user)
    THEN {[filter |-> denyQuery, err |-> "missing permissions"]}
    ELSE FilterBody(user, sqlID, prefix, actions)

\* Filter(user, sqlID, prefix, actions...) under the accept list acceptList:
\* the set of the (SQLFilter, error) pairs it may return.
Filter(acceptList, user, sqlID, prefix, actions) ==
    IF sqlID \notin acceptList
    THEN {[filter |-> denyQuery, err |-> "sqlID is not in the accept list"]}
    ELSE IF MissingPermissions(user)
    THEN {[filter |-> denyQuery, err |-> "missing permissions"]}
    ELSE FilterBody(user, sqlID, prefix, actions)

\* ---------------------------------------------------------- role filters

\* The organization that holds the global roles.
GlobalOrgID == 0

\* UserRolesFilterCondition without its guard on userID.
UserRolesFilterConditionNoGuard(orgID, userID) ==
    [sql |-> "ur.user_id = ? AND (ur.org_id = ? OR ur.org_id = 0)",
     params |-> <<Int64Value(userID), Int64Value(orgID), Int64Value(GlobalOrgID)>>]

\* UserRolesFilterCondition(orgID, userID)
UserRolesFilterCondition(orgID, userID) ==
    IF userID = 0
    THEN [sql |-> "", params |-> <<>>]
    ELSE [sql |-> "ur.user_id = ? AND (ur.org_id = ? OR ur.org_id = 0)",
          params |-> <<Int64Value(userID), Int64Value(orgID), Int64Value(GlobalOrgID)>>]

\* userRolesFilter(orgID, userID)
userRolesFilter(orgID, userID) ==
    LET c == UserRolesFilterCondition(orgID, userID)
    IN  IF c.sql = "" THEN c
        ELSE [sql |-> "\n\tSELECT ur.role_id\n\tFROM user_role AS ur\n\tWHERE "
                          \o c.sql \o "\n\t",
              params |-> c.params]

\* TeamRolesFilderCondition matching the global organization as well.
TeamRolesFilderConditionGlobalToo(orgID, teamIDs) ==
    IF Len(teamIDs) = 0
    THEN [sql |-> "", params |-> <<>>]
    ELSE [sql |-> "tr.team_id IN(?" \o Repeat(", ?", Len(teamIDs) - 1)
                      \o ") AND (tr.org_id = ? OR tr.org_id = ?)",
          params |-> [i \in 1..Len(teamIDs) |-> Int64Value(teamIDs[i])]
                         \o <<Int64Value(orgID), Int64Value(GlobalOrgID)>>]

\* TeamRolesFilderCondition(orgID, teamIDs)
TeamRolesFilderCondition(orgID, teamIDs) ==
    IF Len(teamIDs) = 0
    THEN [sql |-> "", params |-> <<>>]
    ELSE [sql |-> "tr.team_id IN(?" \o Repeat(", ?", Len(teamIDs) - 1)
                      \o ") AND tr.org_id = ?",
          params |-> [i \in 1..Len(teamIDs) |-> Int64Value(teamIDs[i])]
                         \o <<Int64Value(orgID)>>]

\* teamRolesFilter(orgID, teamIDs)
teamRolesFilter(orgID, teamIDs) ==
    LET c == TeamRolesFilderCondition(orgID, teamIDs)
    IN  IF c.sql = "" THEN c
        ELSE [sql |-> "\n\tSELECT tr.role_id FROM team_role as tr\n\tWHERE "
                          \o c.sql \o "\n\t",
              params |-> c.params]

\* BuiltinRolesFilterCondition matching the given organization only.
BuiltinRolesFilterConditionOrgOnly(orgID, roles) ==
    IF Len(roles) = 0
    THEN [sql |-> "", params |-> <<>>]
    ELSE [sql |-> "br.role IN (?" \o Repeat(", ?", Len(roles) - 1)
                      \o ") AND br.org_id = ?",
          params |-> [i \in 1..Len(roles) |-> StringValue(roles[i])]
                         \o <<Int64Value(orgID)>>]

\* BuiltinRolesFilterCondition(orgID, roles)
BuiltinRolesFilterCondition(orgID, roles) ==
    IF Len(roles) = 0
    THEN [sql |-> "", params |-> <<>>]
    ELSE [sql |-> "br.role IN (?" \o Repeat(", ?", Len(roles) - 1)
                      \o ") AND (br.org_id = ? OR br.org_id = ?)",
          params |-> [i \in 1..Len(roles) |-> StringValue(roles[i])]
                         \o <<Int64Value(orgID), Int64Value(GlobalOrgID)>>]

\* builtinRolesFilter(orgID, roles)
builtinRolesFilter(orgID, roles) ==
    LET c == BuiltinRolesFilterCondition(orgID, roles)
    IN  IF c.sql = "" THEN c
        ELSE [sql |-> "\n\tSELECT br.role_id FROM builtin_role AS br\n\tWHERE "
                          \o c.sql \o "\n\t",
              params |-> c.params]

\* AddFragment writing " OR " before every fragment.
AddFragmentAlwaysOr(b, f) ==
    IF f.sql # ""
    THEN [sql |-> b.sql \o " OR " \o f.sql, params |-> b.params \o f.params]
    ELSE b

\* A step of UserRolesFilter for the team and the builtin fragment: a fragment
\* that is not empty is written to the builder b, after " OR " when the
\* builder holds text already, and its arguments are appended.
AddFragment(b, f) ==
    IF f.sql # ""
    THEN [sql |-> (IF Len(b.sql) > 0 THEN b.sql \o " OR " ELSE b.sql) \o f.sql,
          params |-> b.params \o f.params]
    ELSE b

\* UserRolesFilter returning no join at all when no fragment was written.
UserRolesFilterNoJoinWhenEmpty(orgID, userID, teamIDs, roles) ==
    LET u  == userRolesFilter(orgID, userID)
        b1 == IF u.sql # "" THEN [sql |-> u.sql, params |-> u.params]
                            ELSE [sql |-> "", params |-> <<>>]
        b2 == AddFragment(b1, teamRolesFilter(orgID, teamIDs))
        b3 == AddFragment(b2, builtinRolesFilter(orgID, roles))
    IN  IF b3.sql = "" THEN [sql |-> "", params |-> <<>>]
        ELSE [sql |-> "INNER JOIN (" \o b3.sql \o ") as all_role ON role.id = all_role.role_id",
              params |-> b3.params]

\* UserRolesFilter(orgID, userID, teamIDs, roles)
UserRolesFilter(orgID, userID, teamIDs, roles) ==
    LET u  == userRolesFilter(orgID, userID)
        b1 == IF u.sql # "" THEN [sql |-> u.sql, params |-> u.params]
                            ELSE [sql |-> "", params |-> <<>>]
        b2 == AddFragment(b1, teamRolesFilter(orgID, teamIDs))
        b3 == AddFragment(b2, builtinRolesFilter(orgID, roles))
    IN  [sql |-> "INNER JOIN (" \o b3.sql \o ") as all_role ON role.id = all_role.role_id",
         params |-> b3.params]

\* ------------------------------------------------------------------ inputs

\* All sequences over S of length at most n.
SeqsUpTo(S, n) == UNION {[1..k -> S] : k \in 0..n}

\* Prefixes handed to ParseScopes: an integer-mode one, a string-mode one
\* and a one-segment one.
ParsePrefixes == {"teams:id:", "dashboards:uid:", "teams:"}

\* Scopes as a permission may hold them.
ParseScopeUniverse ==
    { "teams:id:7", "teams:id:-007", "teams:id:x", "teams:id:a:5",
      "teams:id:99999999999999999999", "teams:*", "teams:id:*", "teams:id:*x",
      "dashboards:uid:7", "dashboards:uid:notanumber", "other:uid:9" }

\* Prefixes without a colon: the empty one and a bare kind.
BarePrefixes == {"", "teams"}

\* Scopes without a colon, beside a wildcard and a well-formed scope.
MalformedScopeUniverse == {"teams7", "nocolon", "teams:*", "teams:id:7"}

\* The arguments of one call ParseScopes(prefix, scopes).
ParseArgs ==
    { [op |-> "ParseScopes", prefix |-> p, scopes |-> ss] :
          p \in ParsePrefixes, ss \in SeqsUpTo(ParseScopeUniverse, MaxScopes) }
      \cup
    { [op |-> "ParseScopes", prefix |-> p, scopes |-> ss] :
          p \in ParsePrefixes \cup BarePrefixes,
          ss \in SeqsUpTo(MalformedScopeUniverse, MaxScopes) }

\* Column identifiers handed to Filter: one the package accepts at startup,
\* one it does not.
FilterSqlIDs == {"t.id", "x.id"}

\* Accept lists handed to SetAcceptListForTest.
OverrideLists == {{"x.id"}, {}}

FilterPrefixes == {"teams:id:", "dashboards:uid:"}

ActionNames == {"teams:read", "teams:write"}

\* Scope lists an action may be granted.
GrantLists ==
    { <<"teams:id:1", "teams:id:2", "teams:id:3", "dashboards:uid:a", "dashboards:uid:b">>,
      <<"teams:id:2", "teams:id:3", "teams:id:4", "dashboards:uid:b">>,
      <<"teams:id:5", "dashboards:uid:*">>,
      <<"teams:id:5", "teams:id:9">>,
      <<"teams:*", "dashboards:uid:c">>,
      <<"teams:id:5", "teams:id:*", "dashboards:*">>,
      <<"teams:id:x", "other:uid:9">> }

\* The permissions of one organization: nil, or scopes for some of the actions.
ActionMaps == UNION {[D -> GrantLists] : D \in SUBSET ActionNames}

OrgEntries == {NilMap} \cup {MapOf(f) : f \in ActionMaps}

\* What another organization than the user's may hold: every wildcard.
OtherOrgEntries ==
    { MapOf([a \in ActionNames |-> <<"teams:*", "dashboards:*">>]) }

Orgs == {1, 2}

\* Permission maps of a user of organization 1, with or without an entry for
\* it and for organization 2.
PermissionMaps ==
    { [o \in D |-> IF o = 1 THEN own ELSE other] :
          D \in SUBSET Orgs, own \in OrgEntries, other \in OtherOrgEntries }

FilterUsers ==
    {NilUser, UserOf(1, NilMap)} \cup {UserOf(1, MapOf(P)) : P \in PermissionMaps}

\* The arguments of one call Filter(user, sqlID, prefix, actions...).
FilterArgs ==
    { [op |-> "Filter", user |-> u, sqlID |-> c, prefix |-> p, actions |-> as] :
          u \in FilterUsers, c \in FilterSqlIDs, p \in FilterPrefixes,
          as \in SeqsUpTo(ActionNames, MaxActions) }

\* The calls of Filter made while the accept list is swapped and restored: a
\* user with every wildcard asks for each column.
AcceptArgs ==
    { [op |-> "Filter",
       user |-> UserOf(1, MapOf([o \in {1} |-> MapOf([a \in ActionNames |-> <<"teams:*">>])])),
       sqlID |-> c, prefix |-> "teams:id:", actions |-> as] :
          c \in FilterSqlIDs, as \in SeqsUpTo(ActionNames, MaxActions) }

\* The arguments of the role filters: UserRolesFilter(orgID, userID, teamIDs,
\* roles), and the three conditions on the arguments each takes.
RoleArgs ==
    { [op |-> "Roles", orgID |-> o, userID |-> u, teamIDs |-> ts, roles |-> rs] :
          o \in {1, 2}, u \in {0, 1, 2},
          ts \in SeqsUpTo({10, 11}, MaxTeams),
          rs \in SeqsUpTo({"Viewer", "Editor"}, MaxRoles) }

\* ------------------------------------------------------------------ actions

NoCall == [op |-> "none"]

\* The package state after initialisation, and nothing called yet.
InitPackage ==
    /\ sqlIDAcceptList = StartupAcceptList
    /\ restores = <<>>
    /\ call = NoCall

\* A call Filter(args.user, args.sqlID, args.prefix, args.actions...).
FilterCall ==
    /\ args.op = "Filter"
    /\ \E r \in Filter(sqlIDAcceptList, args.user, args.sqlID, args.prefix, args.actions) :
           call' = [op |-> "Filter", filter |-> r.filter, err |-> r.err]
    /\ UNCHANGED <<sqlIDAcceptList, restores, args>>

\* A call SetAcceptListForTest(list): the list is swapped and the closure that
\* is returned holds the list it replaced.
SetAcceptListForTestCall ==
    /\ Len(restores) < MaxOverrides
    /\ \E list \in OverrideLists :
           /\ restores' = Append(restores, [original |-> sqlIDAcceptList, called |-> FALSE])
           /\ sqlIDAcceptList' = list
    /\ call' = [op |-> "SetAcceptListForTest"]
    /\ UNCHANGED args

\* A call of the k-th closure SetAcceptListForTest returned.
RestoreCall ==
    /\ \E k \in 1..Len(restores) :
           /\ sqlIDAcceptList' = restores[k].original
           /\ restores' = [restores EXCEPT ![k].called = TRUE]
    /\ call' = [op |-> "restore"]
    /\ UNCHANGED args

\* Filter reads the accept list, which a test may have swapped before the
\* call: Filter is called with the package as it starts and as it is after
\* one call of SetAcceptListForTest (SpecAccept reaches these states).
Init ==
    /\ args \in FilterArgs
    /\ call = NoCall
    /\ \/ sqlIDAcceptList = StartupAcceptList /\ restores = <<>>
       \/ /\ sqlIDAcceptList \in OverrideLists
          /\ restores = <<[original |-> StartupAcceptList, called |-> FALSE]>>

Next == FilterCall

Spec == Init /\ [][Next]_vars

\* The accept list through the calls of SetAcceptListForTest and of the
\* closures it returns, and Filter under the list of the moment.
InitAccept == InitPackage /\ args \in AcceptArgs

NextAccept == SetAcceptListForTestCall \/ RestoreCall \/ FilterCall

SpecAccept == InitAccept /\ [][NextAccept]_vars

\* A call ParseScopes(args.prefix, args.scopes).
ParseScopesCall ==
    /\ args.op = "ParseScopes"
    /\ LET r == ParseScopes(args.prefix, args.scopes)
       IN  call' = [op |-> "ParseScopes", ids |-> r.ids, idsNil |-> r.idsNil,
                    hasWildcard |-> r.hasWildcard]
    /\ UNCHANGED <<sqlIDAcceptList, restores, args>>

\* A call UserRolesFilter(args.orgID, args.userID, args.teamIDs, args.roles).
UserRolesFilterCall ==
    /\ args.op = "Roles"
    /\ LET r == UserRolesFilter(args.orgID, args.userID, args.teamIDs, args.roles)
       IN  call' = [op |-> "UserRolesFilter", sql |-> r.sql, params |-> r.params]
    /\ UNCHANGED <<sqlIDAcceptList, restores, args>>

\* A call UserRolesFilterCondition(args.orgID, args.userID).
UserRolesFilterConditionCall ==
    /\ args.op = "Roles"
    /\ LET r == UserRolesFilterCondition(args.orgID, args.userID)
       IN  call' = [op |-> "UserRolesFilterCondition", sql |-> r.sql, params |-> r.params]
    /\ UNCHANGED <<sqlIDAcceptList, restores, args>>

\* A call TeamRolesFilderCondition(args.orgID, args.teamIDs).
TeamRolesFilderConditionCall ==
    /\ args.op = "Roles"
    /\ LET r == TeamRolesFilderCondition(args.orgID, args.teamIDs)
       IN  call' = [op |-> "TeamRolesFilderCondition", sql |-> r.sql, params |-> r.params]
    /\ UNCHANGED <<sqlIDAcceptList, restores, args>>

\* A call BuiltinRolesFilterCondition(args.orgID, args.roles).
BuiltinRolesFilterConditionCall ==
    /\ args.op = "Roles"
    /\ LET r == BuiltinRolesFilterCondition(args.orgID, args.roles)
       IN  call' = [op |-> "BuiltinRolesFilterCondition", sql |-> r.sql, params |-> r.params]
    /\ UNCHANGED <<sqlIDAcceptList, restores, args>>

InitParse == InitPackage /\ args \in ParseArgs

NextParse == ParseScopesCall

SpecParse == InitParse /\ [][NextParse]_vars

InitRoles == InitPackage /\ args \in RoleArgs

NextRoles ==
    \/ UserRolesFilterCall
    \/ UserRolesFilterConditionCall
    \/ TeamRolesFilderConditionCall
    \/ BuiltinRolesFilterConditionCall

SpecRoles == InitRoles /\ [][NextRoles]_vars

\* ================================================================== claims

\* The set of the values of a sequence.
Range(seq) == {seq[i] : i \in 1..Len(seq)}

\* The last call was Filter, on args and under the present accept list.
FilterReturned == call.op = "Filter"

\* What ParseScopes gives for the i-th requested action of the call.
ActionParse(i) == ParseScopes(args.prefix, ActionScopes(args.user, args.actions[i]))

\* The requested actions (by position) that are not wildcarded.
Restricting == {i \in 1..Len(args.actions) : ~ActionParse(i).hasWildcard}

\* Some requested action is not wildcarded and grants no identifier.
SomeActionGrantsNothing == \E i \in Restricting : ActionParse(i).ids = {}

\* The scopes of every requested action hold a wildcard of the prefix.
EveryActionWildcarded ==
    \A i \in 1..Len(args.actions) :
        \E s \in Range(ActionScopes(args.user, args.actions[i])) :
            s \in WildcardsFromPrefix(args.prefix)

\* The user of the call has a permission map for its organization.
HasOrgPermissions ==
    /\ ~args.user.isNil
    /\ ~args.user.Permissions.isNil
    /\ args.user.OrgID \in DOMAIN args.user.Permissions.m
    /\ ~args.user.Permissions.m[args.user.OrgID].isNil

IsInList(filter) == filter # denyQuery /\ filter # allowAllQuery

\* C1: whatever the user, the prefix and the actions, Filter called with a
\* sqlID that is not in the accept list returns the deny-all filter and the
\* accept-list error, which no other check comes before.
C1_NotAcceptedDenied ==
    (FilterReturned /\ args.sqlID \notin sqlIDAcceptList)
        => /\ call.filter = denyQuery
           /\ call.err = "sqlID is not in the accept list"

\* C1 witness: a nil user, which the second check would reject, asks for a
\* column that is not accepted.
C1_Witness ==
    /\ FilterReturned
    /\ args.sqlID \notin sqlIDAcceptList
    /\ args.user.isNil
    /\ Len(args.actions) = 2

\* C2: when Filter returns an IN-list for an accepted sqlID, its Args are, as
\* a set, the identifiers that every requested action that is not wildcarded
\* grants under the prefix, and no other.
C2_ArgsAreIntersection ==
    (FilterReturned /\ args.sqlID \in sqlIDAcceptList /\ IsInList(call.filter))
        => Range(call.filter.Args) =
               {id \in UNION {ActionParse(i).ids : i \in Restricting} :
                    \A i \in Restricting : id \in ActionParse(i).ids}

\* C2 witness: one action grants teams 1, 2, 3 and the other 2, 3, 4, and the
\* filter holds 2 and 3.
C2_Witness ==
    /\ FilterReturned
    /\ Len(args.actions) = 2
    /\ ActionParse(1).ids = {Int64Value(1), Int64Value(2), Int64Value(3)}
    /\ ActionParse(2).ids = {Int64Value(2), Int64Value(3), Int64Value(4)}
    /\ Range(call.filter.Args) = {Int64Value(2), Int64Value(3)}

\* C3: for an accepted sqlID and a user with a permission map for its
\* organization, when the scopes of every requested action hold a wildcard of
\* the prefix, Filter returns the allow-all constant and a nil error.
C3_AllWildcardsAllowAll ==
    (/\ FilterReturned
     /\ args.sqlID \in sqlIDAcceptList
     /\ HasOrgPermissions
     /\ EveryActionWildcarded)
        => call.filter = allowAllQuery /\ call.err = NoError

\* C3 witness: two different actions, each wildcarded, one of them by a
\* wildcard that is not the first of its scopes.
C3_Witness ==
    /\ FilterReturned
    /\ args.sqlID \in sqlIDAcceptList
    /\ HasOrgPermissions
    /\ Len(args.actions) = 2
    /\ args.actions[1] # args.actions[2]
    /\ EveryActionWildcarded
    /\ \E i \in 1..2 :
           ActionScopes(args.user, args.actions[i])[1] \notin WildcardsFromPrefix(args.prefix)
    /\ call.filter = allowAllQuery

\* C4 as stated: when some requested action is not wildcarded and grants no
\* identifier, Filter returns the deny-all filter and a nil error.
C4_Original ==
    (FilterReturned /\ SomeActionGrantsNothing)
        => call.filter = denyQuery /\ call.err = NoError

\* C4 amended: when some requested action is not wildcarded and grants no
\* identifier, Filter returns the deny-all filter, wherever the action stands
\* and whatever the others grant; the error is nil when the sqlID is accepted
\* and the user has a permission map for its organization.
C4_EmptyActionDenies ==
    (FilterReturned /\ SomeActionGrantsNothing)
        => /\ call.filter = denyQuery
           /\ (args.sqlID \in sqlIDAcceptList /\ HasOrgPermissions) => call.err = NoError

\* C4 witness: the second of two actions grants nothing, the first is
\* wildcarded, and the call passes both guards.
C4_Witness ==
    /\ FilterReturned
    /\ args.sqlID \in sqlIDAcceptList
    /\ HasOrgPermissions
    /\ Len(args.actions) = 2
    /\ ActionParse(1).hasWildcard
    /\ ~ActionParse(2).hasWildcard /\ ActionParse(2).ids = {}
    /\ call.filter = denyQuery
    /\ call.err = NoError

\* C5: for an accepted sqlID, Filter returns the deny-all filter and an error
\* when the user is nil, when its permission map is nil, and when the map has
\* no entry for the user's organization.
C5_MissingPermissionsDenied ==
    (/\ FilterReturned
     /\ args.sqlID \in sqlIDAcceptList
     /\ \/ args.user.isNil
        \/ args.user.Permissions.isNil
        \/ args.user.OrgID \notin DOMAIN args.user.Permissions.m)
        => call.filter = denyQuery /\ call.err # NoError

\* C5 witness: a user whose permission map holds another organization's entry
\* and none for its own.
C5_Witness ==
    /\ FilterReturned
    /\ args.sqlID \in sqlIDAcceptList
    /\ ~args.user.isNil
    /\ ~args.user.Permissions.isNil
    /\ args.user.OrgID \notin DOMAIN args.user.Permissions.m
    /\ DOMAIN args.user.Permissions.m # {}
    /\ call.err = "missing permissions"

\* C6: an error of Filter always comes with the deny-all filter.
C6_ErrorMeansDeny ==
    (FilterReturned /\ call.err # NoError) => call.filter = denyQuery

\* C6 witness: an error for a call that, the sqlID accepted, would get an
\* IN-list.
C6_Witness ==
    /\ FilterReturned
    /\ call.err # NoError
    /\ HasOrgPermissions
    /\ \E r \in FilterBody(args.user, args.sqlID, args.prefix, args.actions) :
           IsInList(r.filter)

\* strings.Contains
Contains(s, sub) ==
    \E i \in 1..(Len(s) - Len(sub) + 1) : SubSeq(s, i, i + Len(sub) - 1) = sub

\* The arguments the team channel and the builtin channel of the call bind:
\* the team IDs and the organization, the role names, the organization and
\* the global organization; none for an empty list.
TeamChannelArgs ==
    IF args.teamIDs = <<>> THEN <<>>
    ELSE [i \in 1..Len(args.teamIDs) |-> Int64Value(args.teamIDs[i])]
             \o <<Int64Value(args.orgID)>>

BuiltinChannelArgs ==
    IF args.roles = <<>> THEN <<>>
    ELSE [i \in 1..Len(args.roles) |-> StringValue(args.roles[i])]
             \o <<Int64Value(args.orgID), Int64Value(0)>>

\* C7: with userID = 0, whatever the organization, the teams and the roles,
\* UserRolesFilterCondition returns no condition and no argument, and the
\* join of UserRolesFilter holds no user_role subquery and binds the
\* arguments of the team and builtin channels only.
C7_NoUserChannelForZero ==
    (args.op = "Roles" /\ args.userID = 0)
        => /\ call.op = "UserRolesFilterCondition"
                => call.sql = "" /\ call.params = <<>>
           /\ call.op = "UserRolesFilter"
                => /\ ~Contains(call.sql, "user_role")
                   /\ ~Contains(call.sql, "ur.")
                   /\ call.params = TeamChannelArgs \o BuiltinChannelArgs

\* C7 witness: UserRolesFilter for user 0 with teams and roles.
C7_Witness ==
    /\ call.op = "UserRolesFilter"
    /\ args.userID = 0
    /\ Len(args.teamIDs) = 2
    /\ Len(args.roles) = 2
    /\ Contains(call.sql, "team_role")
    /\ Contains(call.sql, "builtin_role")

\* The call of section 8 of the specification.
IsRoundTripCall ==
    /\ call.op = "ParseScopes"
    /\ args.prefix = "dashboards:uid:"
    /\ args.scopes = <<"dashboards:uid:7", "dashboards:uid:notanumber", "other:uid:9">>

\* C8 as stated: that call yields the integer 7 alone and no wildcard.
C8_Original ==
    IsRoundTripCall => call.ids = {Int64Value(7)} /\ call.hasWildcard = FALSE

\* C8 amended: the prefix does not end with ":id:", so that call yields the
\* strings "7" and "notanumber", and no wildcard.
C8_RoundTripStrings ==
    IsRoundTripCall
        => /\ call.ids = {StringValue("7"), StringValue("notanumber")}
           /\ call.hasWildcard = FALSE

\* C8 witness: the call was made.
C8_Witness == IsRoundTripCall /\ ~call.idsNil

\* The text after the last colon of a scope.
LastSegment(scope) ==
    LET colons == {i \in 1..Len(scope) : SubSeq(scope, i, i) = ":"}
    IN  SubSeq(scope, (IF colons = {} THEN 0 ELSE CHOOSE i \in colons : \A j \in colons : j <= i) + 1,
               Len(scope))

\* The scopes of the call that start with its prefix.
Prefixed == {s \in Range(args.scopes) : HasPrefix(s, args.prefix)}

\* No scope of the call is a wildcard form of its prefix.
NoWildcardScope == Range(args.scopes) \cap WildcardsFromPrefix(args.prefix) = {}

\* C9: when no scope is a wildcard of the prefix, ParseScopes returns no
\* wildcard and exactly the identifiers of the scopes that start with the
\* prefix: for a prefix that ends with ":id:" the int64 that the text after
\* the scope's last colon writes, the scopes where it writes none adding
\* nothing; for another prefix that text itself.
C9_ExactIdentifierSet ==
    (call.op = "ParseScopes" /\ NoWildcardScope)
        => /\ call.hasWildcard = FALSE
           /\ call.idsNil = FALSE
           /\ call.ids =
                  IF HasSuffix(args.prefix, ":id:")
                  THEN {Int64Value(ParseInt(LastSegment(s)).val) :
                            s \in {t \in Prefixed : ~ParseInt(LastSegment(t)).err}}
                  ELSE {StringValue(LastSegment(s)) : s \in Prefixed}

\* C9 witness: under an integer prefix, a scope with a colon more, one that
\* writes no integer and one that writes -007 give the identifiers 5 and -7.
C9_Witness ==
    /\ call.op = "ParseScopes"
    /\ args.prefix = "teams:id:"
    /\ args.scopes = <<"teams:id:a:5", "teams:id:x", "teams:id:-007">>
    /\ call.ids = {Int64Value(5), Int64Value(-7)}

\* The wildcard forms of the prefixes of the calls: "kind:*" and
\* "kind:attribute:*" for "kind:attribute:".
WildcardForms ==
    CASE args.prefix = "teams:id:" -> {"teams:*", "teams:id:*"}
      [] args.prefix = "dashboards:uid:" -> {"dashboards:*", "dashboards:uid:*"}
      [] args.prefix = "teams:" -> {"teams:*"}
      [] args.prefix = "teams" -> {"teams:*"}
      [] args.prefix = "" -> {}

\* C10: ParseScopes returns hasWildcard = true and no identifier set exactly
\* when some scope, at whatever position, is equal to a wildcard form of the
\* prefix; a scope that only starts with such a form does not count.
C10_WildcardAnywhere ==
    call.op = "ParseScopes"
        => /\ call.hasWildcard = (Range(args.scopes) \cap WildcardForms # {})
           /\ call.hasWildcard => call.idsNil /\ call.ids = {}

\* C10 witness: the wildcard stands between two scopes that carry identifiers.
C10_Witness ==
    /\ call.op = "ParseScopes"
    /\ args.prefix = "teams:id:"
    /\ Len(args.scopes) = 3
    /\ args.scopes[1] = "teams:id:7"
    /\ args.scopes[2] = "teams:id:*"
    /\ args.scopes[3] = "teams:id:-007"
    /\ call.hasWildcard
    /\ call.idsNil

\* Whether a scope holds a colon.
HasColon(scope) == \E i \in 1..Len(scope) : CharAt(scope, i) = ":"

\* The identifiers that the scopes of the call which hold a colon can give.
WellFormedIdentifiers ==
    UNION { {Int64Value(ParseInt(LastSegment(s)).val), StringValue(LastSegment(s))} :
                s \in {t \in Range(args.scopes) : HasColon(t)} }

\* C11 as stated: whatever the prefix, ParseScopes returns a result and no
\* identifier of the returned set comes from a scope without a colon: every
\* identifier is the one of a scope of the call that holds a colon.
C11_Original ==
    call.op = "ParseScopes"
        => /\ call.hasWildcard \in BOOLEAN
           /\ call.ids \subseteq WellFormedIdentifiers

\* C11 where it holds: under a prefix that holds a colon, a scope without
\* one adds no identifier.
C11_ColonPrefix ==
    (call.op = "ParseScopes" /\ HasColon(args.prefix))
        => call.ids \subseteq WellFormedIdentifiers

\* C11 witness: under the prefix "teams" the scope "teams7" is read between
\* two other scopes and no wildcard is met.
C11_Witness ==
    /\ call.op = "ParseScopes"
    /\ args.prefix = "teams"
    /\ args.scopes = <<"nocolon", "teams7", "teams:id:7">>
    /\ ~call.hasWildcard

\* The number of ? in a text.
Placeholders(s) == Cardinality({i \in 1..Len(s) : CharAt(s, i) = "?"})

\* A list of n placeholders: "?" at the odd positions, "," between them.
IsPlaceholderList(s, n) ==
    /\ Len(s) = 2 * n - 1
    /\ \A i \in 1..Len(s) : CharAt(s, i) = (IF i % 2 = 1 THEN "?" ELSE ",")

\* The filter f is " <sqlID> IN (?,...,?)" with one placeholder for each of
\* its arguments, at least one argument and no argument twice.
IsInFilter(f, sqlID) ==
    LET head == " " \o sqlID \o " IN ("
        n    == Len(f.Args)
    IN  /\ n >= 1
        /\ HasPrefix(f.Where, head)
        /\ HasSuffix(f.Where, ")")
        /\ IsPlaceholderList(SubSeq(f.Where, Len(head) + 1, Len(f.Where) - 1), n)
        /\ Placeholders(f.Where) = n
        /\ \A i, j \in 1..n : f.Args[i] = f.Args[j] => i = j

\* C12: every filter Filter returns is the deny-all constant, the allow-all
\* constant, or " <sqlID> IN (?,...,?)" with a leading space, as many
\* placeholders as arguments, at least one argument and none twice.
C12_ThreeShapes ==
    FilterReturned
        => \/ call.filter = [Where |-> " 1 = 0", Args |-> <<>>]
           \/ call.filter = [Where |-> " 1 = 1", Args |-> <<>>]
           \/ IsInFilter(call.filter, args.sqlID)

\* C12 witness: the scopes teams:id:5 and teams:id:9 of the one requested
\* action on t.id give " t.id IN (?,?)" with the arguments 5 and 9.
C12_Witness ==
    /\ FilterReturned
    /\ args.sqlID = "t.id"
    /\ args.prefix = "teams:id:"
    /\ args.actions = <<"teams:read">>
    /\ ActionScopes(args.user, "teams:read") = <<"teams:id:5", "teams:id:9">>
    /\ call.filter.Where = " t.id IN (?,?)"
    /\ Range(call.filter.Args) = {Int64Value(5), Int64Value(9)}

\* Every closure that SetAcceptListForTest returned has been called.
EveryRestoreCalled ==
    /\ Len(restores) >= 1
    /\ \A k \in 1..Len(restores) : restores[k].called

\* C13 as stated: once every closure returned by SetAcceptListForTest has
\* been called, in whatever order, the accept list Filter consults is the
\* one the package started with.
C13_Original == EveryRestoreCalled => sqlIDAcceptList = StartupAcceptList

\* C13 where it holds: after one override and the call of its closure the
\* accept list is the startup one.
C13_OneOverride ==
    (Len(restores) = 1 /\ restores[1].called /\ call.op = "restore")
        => sqlIDAcceptList = StartupAcceptList

\* C13 witness: two overrides, both closures called, and the startup list is
\* back (the closures were called in the reverse order).
C13_Witness ==
    /\ Len(restores) = 2
    /\ EveryRestoreCalled
    /\ call.op = "restore"
    /\ sqlIDAcceptList = StartupAcceptList

\* The rows of user_role a query may meet: a user and an organization.
UserRoleRows == [user_id : 0..2, org_id : 0..3]

\* The positions of the comparisons " = " of a condition, in order.
Comparisons(s) ==
    LET at == {i \in 1..(Len(s) - 2) : SubSeq(s, i, i + 2) = " = "}
    IN  CHOOSE q \in [1..Cardinality(at) -> at] :
            \A i, j \in 1..Cardinality(at) : i < j => q[i] < q[j]

\* The column compared at position i: the word that ends before it.
ColumnAt(s, i) ==
    LET stops == {j \in 1..(i - 1) : CharAt(s, j) \in {" ", "("}}
    IN  SubSeq(s, (IF stops = {} THEN 0 ELSE CHOOSE j \in stops : \A k \in stops : k <= j) + 1,
               i - 1)

\* The operand compared at position i: the word that starts after it.
OperandAt(s, i) ==
    LET stops == {j \in (i + 3)..Len(s) : CharAt(s, j) \in {" ", ")"}}
    IN  SubSeq(s, i + 3,
               (IF stops = {} THEN Len(s) + 1 ELSE CHOOSE j \in stops : \A k \in stops : j <= k) - 1)

\* The text between the k-th comparison's operand and the next column (or
\* the end of the condition).
ConnectiveAfter(s, k) ==
    LET q    == Comparisons(s)
        from == q[k] + 3 + Len(OperandAt(s, q[k]))
        to   == IF k = Len(q) THEN Len(s)
                ELSE q[k + 1] - 1 - Len(ColumnAt(s, q[k + 1]))
    IN  SubSeq(s, from, to)

\* The value the k-th comparison of s compares with, the placeholders taking
\* the arguments in order: the i-th ? takes params[i].
OperandValue(s, params, k) ==
    LET q  == Comparisons(s)
        op == OperandAt(s, q[k])
        nth == Cardinality({j \in 1..k : OperandAt(s, q[j]) = "?"})
    IN  IF op = "?" THEN params[nth] ELSE Int64Value(DecVal(op))

\* Whether the k-th comparison of s holds of a row of user_role.
ComparisonHolds(s, params, k, row) ==
    LET col == ColumnAt(s, Comparisons(s)[k])
        v   == OperandValue(s, params, k)
    IN  CASE col = "ur.user_id" -> v = Int64Value(row.user_id)
          [] col = "ur.org_id" -> v = Int64Value(row.org_id)
          [] OTHER -> FALSE

\* The rows a condition of the form "a AND (b OR c)" selects under params.
RowsSelected(s, params) ==
    IF /\ Len(Comparisons(s)) = 3
       /\ ConnectiveAfter(s, 1) = " AND ("
       /\ ConnectiveAfter(s, 2) = " OR "
       /\ ConnectiveAfter(s, 3) = ")"
    THEN {row \in UserRoleRows :
              /\ ComparisonHolds(s, params, 1, row)
              /\ \/ ComparisonHolds(s, params, 2, row)
                 \/ ComparisonHolds(s, params, 3, row)}
    ELSE {}

\* What running the condition with its arguments bound positionally may
\* give: the rows selected when there is one argument for each placeholder;
\* otherwise the statement is rejected, or run with the arguments in excess
\* left aside, depending on the database driver.
QueryOutcomes(s, params) ==
    IF Placeholders(s) = Len(params)
    THEN {[failed |-> FALSE, rows |-> RowsSelected(s, params)]}
    ELSE {[failed |-> TRUE, rows |-> {}]}
             \cup (IF Placeholders(s) < Len(params)
                   THEN {[failed |-> FALSE, rows |-> RowsSelected(s, params)]}
                   ELSE {})

\* The rows of the user in the given organization or in the global one.
RowsOfUser ==
    {row \in UserRoleRows :
         row.user_id = args.userID /\ row.org_id \in {args.orgID, GlobalOrgID}}

\* C14 as stated: for a nonzero userID the condition of
\* UserRolesFilterCondition, its arguments bound positionally to its
\* placeholders, selects exactly the user_role rows of that user in the
\* given organization or in the global one.
C14_Original ==
    (call.op = "UserRolesFilterCondition" /\ args.userID # 0)
        => \A o \in QueryOutcomes(call.sql, call.params) :
               ~o.failed /\ o.rows = RowsOfUser

\* C14 for the rows alone: the comparisons of the condition, the first two
\* arguments bound to its two placeholders, hold of exactly those rows.
C14_RowsWhenRun ==
    (call.op = "UserRolesFilterCondition" /\ args.userID # 0)
        => RowsSelected(call.sql, call.params) = RowsOfUser

\* C14 witness: the condition for user 2 in organization 1 was built.
C14_Witness ==
    /\ call.op = "UserRolesFilterCondition"
    /\ args.userID = 2
    /\ args.orgID = 1
    /\ RowsSelected(call.sql, call.params)
           = {[user_id |-> 2, org_id |-> 0], [user_id |-> 2, org_id |-> 1]}

\* A list of n placeholders separated by ", ".
IsSpacedPlaceholderList(s, n) ==
    /\ Len(s) = 3 * n - 2
    /\ \A i \in 1..Len(s) :
           CharAt(s, i) = (CASE i % 3 = 1 -> "?" [] i % 3 = 2 -> "," [] OTHER -> " ")

\* The text s is head, a list of n placeholders, then tail.
IsInCondition(s, head, n, tail) ==
    /\ HasPrefix(s, head)
    /\ HasSuffix(s, tail)
    /\ Len(s) = Len(head) + (3 * n - 2) + Len(tail)
    /\ IsSpacedPlaceholderList(SubSeq(s, Len(head) + 1, Len(s) - Len(tail)), n)

\* C15: TeamRolesFilderCondition returns the empty text and no argument for
\* an empty team list; for n team IDs it returns a condition with n + 1
\* placeholders, n for tr.team_id and one for tr.org_id, compared with the
\* given organization alone, and the arguments are the team IDs in their
\* order, then orgID.
C15_TeamCondition ==
    call.op = "TeamRolesFilderCondition"
        => IF args.teamIDs = <<>>
           THEN call.sql = "" /\ call.params = <<>>
           ELSE /\ Placeholders(call.sql) = Len(args.teamIDs) + 1
                /\ IsInCondition(call.sql, "tr.team_id IN(", Len(args.teamIDs),
                                 ") AND tr.org_id = ?")
                /\ Len(call.params) = Len(args.teamIDs) + 1
                /\ \A i \in 1..Len(args.teamIDs) :
                       call.params[i] = Int64Value(args.teamIDs[i])
                /\ call.params[Len(args.teamIDs) + 1] = Int64Value(args.orgID)

\* C15 witness: the condition for the teams 11 and 10 in organization 2.
C15_Witness ==
    /\ call.op = "TeamRolesFilderCondition"
    /\ args.teamIDs = <<11, 10>>
    /\ args.orgID = 2
    /\ call.sql = "tr.team_id IN(?, ?) AND tr.org_id = ?"
    /\ call.params = <<Int64Value(11), Int64Value(10), Int64Value(2)>>

\* C16: BuiltinRolesFilterCondition returns the empty text and no argument
\* for an empty role list; for n role names it returns a condition with
\* n + 2 placeholders, n for br.role and two for br.org_id joined by OR, and
\* the arguments are the role names in their order, then orgID, then the
\* global organization.
C16_BuiltinCondition ==
    call.op = "BuiltinRolesFilterCondition"
        => IF args.roles = <<>>
           THEN call.sql = "" /\ call.params = <<>>
           ELSE /\ Placeholders(call.sql) = Len(args.roles) + 2
                /\ IsInCondition(call.sql, "br.role IN (", Len(args.roles),
                                 ") AND (br.org_id = ? OR br.org_id = ?)")
                /\ Len(call.params) = Len(args.roles) + 2
                /\ \A i \in 1..Len(args.roles) :
                       call.params[i] = StringValue(args.roles[i])
                /\ call.params[Len(args.roles) + 1] = Int64Value(args.orgID)
                /\ call.params[Len(args.roles) + 2] = Int64Value(GlobalOrgID)

\* C16 witness: the condition for the roles Editor and Viewer in
\* organization 2.
C16_Witness ==
    /\ call.op = "BuiltinRolesFilterCondition"
    /\ args.roles = <<"Editor", "Viewer">>
    /\ args.orgID = 2
    /\ call.sql = "br.role IN (?, ?) AND (br.org_id = ? OR br.org_id = ?)"
    /\ call.params = <<StringValue("Editor"), StringValue("Viewer"),
                       Int64Value(2), Int64Value(0)>>

\* The two ends of the join UserRolesFilter returns.
JoinHead == "INNER JOIN ("
JoinTail == ") as all_role ON role.id = all_role.role_id"

\* The subquery of a join: the text between JoinHead and JoinTail.
Subquery(sql) == SubSeq(sql, Len(JoinHead) + 1, Len(sql) - Len(JoinTail))

\* No channel applies to the call: user 0, no team, no role.
NoChannelApplies ==
    args.op = "Roles" /\ args.userID = 0 /\ args.teamIDs = <<>> /\ args.roles = <<>>

\* C17: when no channel applies, UserRolesFilter still returns an inner join
\* on role.id = all_role.role_id, the subquery joined against selects from no
\* table (it is empty), so no role row is matched, and no argument is
\* returned.
C17_EmptyJoin ==
    (call.op = "UserRolesFilter" /\ NoChannelApplies)
        => /\ HasPrefix(call.sql, JoinHead)
           /\ HasSuffix(call.sql, JoinTail)
           /\ Subquery(call.sql) = ""
           /\ ~Contains(call.sql, "SELECT")
           /\ call.params = <<>>

\* C17 witness: UserRolesFilter was called with no channel applicable.
C17_Witness ==
    /\ call.op = "UserRolesFilter"
    /\ NoChannelApplies
    /\ call.sql = "INNER JOIN () as all_role ON role.id = all_role.role_id"

\* The positions where sub stands in s.
Occurrences(s, sub) ==
    {i \in 1..(Len(s) - Len(sub) + 1) : SubSeq(s, i, i + Len(sub) - 1) = sub}

\* The first position where sub stands in s; 0 when it does not.
IndexOf(s, sub) ==
    IF Occurrences(s, sub) = {} THEN 0
    ELSE CHOOSE i \in Occurrences(s, sub) : \A j \in Occurrences(s, sub) : i <= j

\* The tables of the three channels, in the order user, team, builtin, and
\* whether each channel applies to the call.
ChannelTables == <<"FROM user_role AS ur", "FROM team_role as tr", "FROM builtin_role AS br">>
ChannelApplies == <<args.userID # 0, args.teamIDs # <<>>, args.roles # <<>>>>

\* The arguments UserRolesFilterCondition returns for the call.
UserChannelArgs ==
    IF args.userID = 0 THEN <<>>
    ELSE <<Int64Value(args.userID), Int64Value(args.orgID), Int64Value(GlobalOrgID)>>

\* A fragment ends with a newline and a tab and the next one starts with a
\* newline: the " OR " between two fragments, unlike the OR inside a
\* condition, stands between a tab and a newline.
FragmentSeparators(sql) == Occurrences(sql, "\t OR \n")

\* C18: the join of UserRolesFilter is "INNER JOIN (" subquery ") as all_role
\* ON role.id = all_role.role_id"; the subquery holds the fragment of each
\* channel that applies, once, and of no other, in the order user, team,
\* builtin; k fragments are separated by k - 1 " OR ", none before the first
\* or after the last; the arguments are those of the user, the team and the
\* builtin channel, in this order.
C18_FragmentsInOrder ==
    call.op = "UserRolesFilter"
        => LET sub == Subquery(call.sql)
               k   == Cardinality({c \in 1..3 : ChannelApplies[c]})
           IN  /\ HasPrefix(call.sql, JoinHead)
               /\ HasSuffix(call.sql, JoinTail)
               /\ \A c \in 1..3 :
                      Cardinality(Occurrences(sub, ChannelTables[c]))
                          = (IF ChannelApplies[c] THEN 1 ELSE 0)
               /\ \A c, d \in 1..3 :
                      (c < d /\ ChannelApplies[c] /\ ChannelApplies[d])
                          => IndexOf(sub, ChannelTables[c]) < IndexOf(sub, ChannelTables[d])
               /\ Cardinality(Occurrences(sub, "SELECT")) = k
               /\ Cardinality(FragmentSeparators(sub)) = (IF k = 0 THEN 0 ELSE k - 1)
               /\ ~HasPrefix(sub, " OR ")
               /\ ~HasSuffix(sub, " OR ")
               /\ k > 0 => HasPrefix(sub, "\n\tSELECT") /\ HasSuffix(sub, "\n\t")
               /\ call.params = UserChannelArgs \o TeamChannelArgs \o BuiltinChannelArgs

\* C18 witness: the three channels apply, with two teams and two roles.
C18_Witness ==
    /\ call.op = "UserRolesFilter"
    /\ args.userID = 2
    /\ Len(args.teamIDs) = 2
    /\ Len(args.roles) = 2
    /\ Cardinality(FragmentSeparators(call.sql)) = 2
    /\ Len(call.params) = 10

\* The columns the role filters compare.
RoleColumns == {"ur.user_id", "ur.org_id", "tr.team_id", "tr.org_id", "br.role", "br.org_id"}

\* The position of the i-th ? of s.
PlaceholderAt(s, i) ==
    CHOOSE p \in Occurrences(s, "?") :
        Cardinality({q \in Occurrences(s, "?") : q <= p}) = i

\* The column the i-th ? of s is compared with: the last column named
\* before it.
PlaceholderColumn(s, i) ==
    LET p    == PlaceholderAt(s, i)
        last(c) == LET at == {j \in Occurrences(s, c) : j < p}
                   IN  IF at = {} THEN 0 ELSE CHOOSE j \in at : \A k \in at : k <= j
    IN  CHOOSE c \in RoleColumns : \A d \in RoleColumns : last(d) <= last(c)

\* The values of the call that a placeholder on a column is meant for.
IntendedFor(column) ==
    CASE column = "ur.user_id" -> {Int64Value(args.userID)}
      [] column = "tr.team_id" -> {Int64Value(t) : t \in Range(args.teamIDs)}
      [] column = "br.role" -> {StringValue(r) : r \in Range(args.roles)}
      [] OTHER -> {Int64Value(args.orgID), Int64Value(GlobalOrgID)}

\* The last call was one of the four role filters.
RoleFilterReturned ==
    call.op \in {"UserRolesFilter", "UserRolesFilterCondition",
                 "TeamRolesFilderCondition", "BuiltinRolesFilterCondition"}

\* C19 as stated: the text returned by UserRolesFilter, and by each of the
\* three conditions, holds as many ? as arguments are returned, and the i-th
\* argument is a value meant for the column of the i-th ?.
C19_Original ==
    RoleFilterReturned
        => /\ Placeholders(call.sql) = Len(call.params)
           /\ \A i \in 1..Placeholders(call.sql) :
                  /\ i <= Len(call.params)
                  /\ call.params[i] \in IntendedFor(PlaceholderColumn(call.sql, i))

\* C19 where it holds: for user 0, where the user channel is left out, and
\* for the team and the builtin condition.
C19_WithoutUserChannel ==
    (RoleFilterReturned
        /\ (args.userID = 0
               \/ call.op \in {"TeamRolesFilderCondition", "BuiltinRolesFilterCondition"}))
        => /\ Placeholders(call.sql) = Len(call.params)
           /\ \A i \in 1..Placeholders(call.sql) :
                  call.params[i] \in IntendedFor(PlaceholderColumn(call.sql, i))

\* C19 witness: with user 1 of organization 2 and team 10 the join holds four
\* ? and five arguments, and the ? of tr.team_id takes the global
\* organization.
C19_Witness ==
    /\ call.op = "UserRolesFilter"
    /\ args.userID = 1
    /\ args.orgID = 2
    /\ args.teamIDs = <<10>>
    /\ args.roles = <<>>
    /\ Placeholders(call.sql) = 4
    /\ Len(call.params) = 5
    /\ PlaceholderColumn(call.sql, 3) = "tr.team_id"
    /\ call.params[3] = Int64Value(GlobalOrgID)

\* Filter returned the allow-all filter.
AllowAllReturned == FilterReturned /\ call.filter = [Where |-> " 1 = 1", Args |-> <<>>]

\* C20 as stated: Filter returns allow-all only when at least one action is
\* requested and the scopes of every requested action hold a wildcard of the
\* prefix.
C20_Original ==
    AllowAllReturned => Len(args.actions) >= 1 /\ EveryActionWildcarded

\* C20 amended: Filter returns allow-all only with a nil error, for an
\* accepted sqlID and a user with a permission map for its organization, and
\* only when the scopes of every requested action hold a wildcard of the
\* prefix; no requested action at all is such a case.
C20_AllowAllOnlyWildcarded ==
    AllowAllReturned
        => /\ call.err = NoError
           /\ args.sqlID \in sqlIDAcceptList
           /\ HasOrgPermissions
           /\ \A i \in 1..Len(args.actions) : ActionParse(i).hasWildcard
           /\ EveryActionWildcarded

\* C20 witness: a call without any action, past both guards, returns
\* allow-all.
C20_Witness ==
    /\ AllowAllReturned
    /\ args.actions = <<>>
    /\ args.sqlID \in sqlIDAcceptList
    /\ HasOrgPermissions
    /\ call.err = NoError

\* The kind of a filter: deny-all, allow-all or IN-list.
FilterKind(f) ==
    CASE f.Where = " 1 = 0" -> "deny-all"
      [] f.Where = " 1 = 1" -> "allow-all"
      [] OTHER -> "IN-list"

\* Two returns of Filter with the same error status, the same kind of filter
\* and the same set of Args.
SameOutcome(r1, r2) ==
    /\ r1.err = r2.err
    /\ FilterKind(r1.filter) = FilterKind(r2.filter)
    /\ Range(r1.filter.Args) = Range(r2.filter.Args)

\* The lists that hold the elements of s in another order.
PermutationsOf(s) ==
    {[i \in 1..Len(s) |-> s[p[i]]] : p \in Orderings(1..Len(s))}

\* The list s with every element kept where it stands first.
WithoutDuplicates(s) ==
    LET keep == {i \in 1..Len(s) : \A j \in 1..(i - 1) : s[j] # s[i]}
        at   == CHOOSE q \in [1..Cardinality(keep) -> keep] :
                    \A i, j \in 1..Cardinality(keep) : i < j => q[i] < q[j]
    IN  [i \in 1..Cardinality(keep) |-> s[at[i]]]

\* C21: what Filter returned is, in error status, kind of filter and set of
\* Args, what it returns for the same user, sqlID and prefix with the actions
\* in any other order, and with the actions listed once each.
C21_OrderAndDuplicates ==
    FilterReturned
        => \A as \in PermutationsOf(args.actions) \cup {WithoutDuplicates(args.actions)} :
               \A r \in Filter(sqlIDAcceptList, args.user, args.sqlID, args.prefix, as) :
                   SameOutcome(call, r)

\* C21 witness: two different actions, the first wildcarded and the second
\* granting identifiers, and Filter returned an IN-list.
C21_Witness ==
    /\ FilterReturned
    /\ Len(args.actions) = 2
    /\ args.actions[1] # args.actions[2]
    /\ ActionParse(1).hasWildcard
    /\ ~ActionParse(2).hasWildcard
    /\ FilterKind(call.filter) = "IN-list"
    /\ call.err = NoError

\* C21 witness for the duplicates: the same action twice, and an IN-list of
\* two identifiers.
C21_DuplicateReached ==
    /\ FilterReturned
    /\ Len(args.actions) = 2
    /\ args.actions[1] = args.actions[2]
    /\ FilterKind(call.filter) = "IN-list"
    /\ Len(call.filter.Args) = 2

\* What the map of a variant may hold for another organization: every
\* wildcard, a nil entry, no action, identifiers for each action.
VariantEntries ==
    OtherOrgEntries
        \cup {NilMap, MapOf(<<>>),
              MapOf([a \in ActionNames |-> <<"teams:id:1", "dashboards:uid:a">>])}

\* The users of the same organization as u whose permission map has the
\* entry of u for that organization (or, like u, none) and any entries for
\* the other organizations.
OtherOrgVariants(u) ==
    LET m   == IF u.Permissions.isNil THEN <<>> ELSE u.Permissions.m
        own == {u.OrgID} \cap DOMAIN m
    IN  {UserOf(u.OrgID,
                MapOf([o \in own \cup D |-> IF o = u.OrgID THEN m[o] ELSE other])) :
             D \in SUBSET (Orgs \ {u.OrgID}), other \in VariantEntries}

\* C22: what Filter returned for a user is, in error, kind of filter and set
\* of Args, what it returns for every user of the same organization whose
\* permission map agrees on the entry of that organization, whatever the
\* entries for other organizations, for the same sqlID, prefix and actions.
C22_OwnOrganizationOnly ==
    (FilterReturned /\ ~args.user.isNil)
        => \A u \in OtherOrgVariants(args.user) :
               \A r \in Filter(sqlIDAcceptList, u, args.sqlID, args.prefix, args.actions) :
                   SameOutcome(call, r)

\* C22 witness: the user's organization grants identifiers, another
\* organization in its map holds every wildcard, and Filter returned an
\* IN-list; a variant of the user has no entry for the other organization.
C22_Witness ==
    /\ FilterReturned
    /\ ~args.user.isNil
    /\ DOMAIN args.user.Permissions.m = {1, 2}
    /\ args.user.OrgID = 1
    /\ "teams:*" \in Range(args.user.Permissions.m[2].m["teams:read"])
    /\ args.actions = <<"teams:read">>
    /\ FilterKind(call.filter) = "IN-list"
    /\ \E u \in OtherOrgVariants(args.user) : DOMAIN u.Permissions.m = {1}

====
